---- MODULE Spec2Model ----
(***************************************************************************)
(* Model of prime_sieve::Sieve (src/src/lib.rs): a boolean table over      *)
(* 0..=max, populated once by the Sieve of Eratosthenes (fill /            *)
(* process_ahead) and then queried by lookup and filter.                   *)
(*                                                                         *)
(* fill is modelled statement by statement (pc, i, cur_target), so that    *)
(* the individual table writes of each elimination pass can be observed.   *)
(* lookup and filter take &self and are modelled as operators over the     *)
(* current sieve; the actions Lookup and Filter apply them to an input and *)
(* record the returned value in ret.                                       *)
(***************************************************************************)
EXTENDS Integers, Sequences, FiniteSets

VARIABLES
    max,          \* Sieve.max
    sieve_table,  \* Sieve.sieve_table, a Vec<bool> indexed from 0
    filled,       \* Sieve.filled
    pc,           \* position of the running call: "new" (Sieve::new is about to call
                  \* fill), "idle" (no call is running), "loop", "ahead" (inside fill),
                  \* "panicked" (Sieve::new panicked and its sieve was dropped)
    i,            \* loop variable of fill's for loop (= process_ahead's target)
    cur_target,   \* local of process_ahead
    writes,       \* log of the stores executed at lib.rs:51
    ret           \* the most recent call: its name, its argument (for fill, the
                  \* receiver's filled flag at the call) and the returned value

vars == <<max, sieve_table, filled, pc, i, cur_target, writes, ret>>

(***************************************************************************)
(* Bounds of the model.                                                    *)
(***************************************************************************)
\* largest max a sieve is constructed with
MaxLimit == 16
\* longest vector given to filter (besides the vector of the repository's test)
MaxLen == 2
\* filter's vectors draw their elements from 0..MaxElem and max+1
MaxElem == 4

(***************************************************************************)
(* Result<T, String>.  An error string is kept as the format string and    *)
(* the values formatted into it.                                           *)
(***************************************************************************)
Ok(v) == [tag |-> "Ok", val |-> v]

Err(m) == [tag |-> "Err", msg |-> m]

Pending == [tag |-> "Pending"]

Panic == [tag |-> "Panic"]

\* String::from("Sieve not populated!")
NotPopulatedMsg == [text |-> "Sieve not populated!", args |-> <<>>]

\* format!("{} is out of this sieve's bounds (max {})", target, self.max)
OutOfBoundsMsg(target, m) ==
    [text |-> "{} is out of this sieve's bounds (max {})", args |-> <<target, m>>]

(***************************************************************************)
(* Vec<bool> indexing: an index outside the vector panics.                 *)
(***************************************************************************)
InBounds(table, idx) == idx \in DOMAIN table

\* (0..=max).map(|_| true).collect()
AllTrue(m) == [k \in 0..m |-> TRUE]

\* (self.max as f64).sqrt() as usize: the floor of the square root (the
\* conversion to f64 and the square root are exact far beyond these sizes)
ISqrt(n) == CHOOSE r \in 0..n : r * r <= n /\ (r + 1) * (r + 1) > n

\* the inclusive upper end of fill's range 2..=sqrt(max)
LoopEnd(n) == ISqrt(n)

(***************************************************************************)
(* Sieve::lookup, on the current sieve.                                    *)
(***************************************************************************)
\* lookup with the bounds test ahead of the populated test
lookup_BoundsFirst(target) ==
    IF target > max THEN Err(OutOfBoundsMsg(target, max))
    ELSE IF ~filled THEN Err(NotPopulatedMsg)
    ELSE Ok(sieve_table[target])

\* lookup that also rejects target = max
lookup_RejectsMax(target) ==
    IF ~filled THEN Err(NotPopulatedMsg)
    ELSE IF target >= max THEN Err(OutOfBoundsMsg(target, max))
    ELSE Ok(sieve_table[target])

lookup(target) ==
    IF ~filled THEN Err(NotPopulatedMsg)
    ELSE IF target > max THEN Err(OutOfBoundsMsg(target, max))
    ELSE Ok(sieve_table[target])

(***************************************************************************)
(* Sieve::filter, on the current sieve.                                    *)
(***************************************************************************)
\* a push that keeps one copy of each value
PushUnique(result, elem) ==
    IF \E k \in 1..Len(result) : result[k] = elem THEN result ELSE Append(result, elem)

\* result.push(i)
Push(result, elem) == Append(result, elem)

\* a loop that steps over the elements lookup rejects
RECURSIVE filter_loop_SkipErr(_, _, _)
filter_loop_SkipErr(target, idx, result) ==
    IF idx > Len(target) THEN Ok(result)
    ELSE LET r == lookup(target[idx]) IN
         IF r.tag = "Err" THEN filter_loop_SkipErr(target, idx + 1, result)
         ELSE filter_loop_SkipErr(target, idx + 1,
                  IF r.val THEN Push(result, target[idx]) ELSE result)

\* for i in target.into_iter() { if self.lookup(i)? { result.push(i); } } Ok(result)
\* idx is the position of the iterator, result the vector built so far
RECURSIVE filter_loop(_, _, _)
filter_loop(target, idx, result) ==
    IF idx > Len(target) THEN Ok(result)
    ELSE LET r == lookup(target[idx]) IN
         IF r.tag = "Err" THEN r
         ELSE filter_loop(target, idx + 1,
                  IF r.val THEN Push(result, target[idx]) ELSE result)

filter(target) == filter_loop(target, 1, <<>>)

(***************************************************************************)
(* Inputs.                                                                 *)
(***************************************************************************)
SeqsUpTo(S, n) == UNION {[1..k -> S] : k \in 0..n}

\* the vector of tests::test_correct_filtering
TestCases == <<1, 2, 3, 4, 5, 6>>

LookupTargets == 0..(MaxLimit + 2)

FilterInputs == SeqsUpTo((0..MaxElem) \cup {max + 1}, MaxLen) \cup {TestCases}

(***************************************************************************)
(* Construction.  Sieve::unfilled(max) has run; under Sieve::new the call  *)
(* of fill at lib.rs:30 is the only thing that can follow (pc = "new").    *)
(***************************************************************************)
Init ==
    /\ max \in 0..MaxLimit
    /\ sieve_table = AllTrue(max)
    /\ filled = FALSE
    /\ pc \in {"idle", "new"}
    /\ i = 0
    /\ cur_target = 0
    /\ writes = {}
    /\ ret = [op |-> "unfilled", arg |-> max, res |-> Ok(<<>>)]

(***************************************************************************)
(* Sieve::fill.                                                            *)
(***************************************************************************)
\* the record of the call of fill that is entered: by Sieve::new (lib.rs:30)
\* or by the owner of the sieve
FillCall(res) ==
    IF pc = "new" THEN [op |-> "new", arg |-> max, res |-> res]
                  ELSE [op |-> "fill", arg |-> filled, res |-> res]

\* where a panic inside fill leaves the sieve.  The panic unwinds out of fill.
\* Under Sieve::new the sieve is the local result of new (lib.rs:29) and is
\* dropped by the unwinding: nobody ever holds it.  A fill called by the owner
\* leaves the sieve with the owner, as the stores before the panic left it,
\* and the owner can go on calling it once the panic is caught.
Unwound(caller) == IF caller = "new" THEN "panicked" ELSE "idle"

\* fill without the early return for a filled sieve
FillEnter_NoEarlyReturn ==
    /\ pc \in {"idle", "new"}
    /\ IF InBounds(sieve_table, 1)
          THEN /\ sieve_table' = [sieve_table EXCEPT ![0] = FALSE, ![1] = FALSE]
               /\ pc' = "loop"
               /\ i' = 2
               /\ ret' = FillCall(Pending)
          ELSE /\ sieve_table' = [sieve_table EXCEPT ![0] = FALSE]
               /\ pc' = Unwound(FillCall(Panic).op)
               /\ i' = i
               /\ ret' = FillCall(Panic)
    /\ UNCHANGED <<max, filled, cur_target, writes>>

\* lib.rs:70-75: the call of fill, up to the loop
FillEnter ==
    /\ pc \in {"idle", "new"}
    /\ IF filled
          THEN \* lib.rs:71-73
               /\ ret' = FillCall(Ok(<<>>))
               /\ UNCHANGED <<max, sieve_table, filled, pc, i, cur_target, writes>>
          ELSE /\ IF InBounds(sieve_table, 1)
                     THEN \* lib.rs:74-75
                          /\ sieve_table' = [sieve_table EXCEPT ![0] = FALSE, ![1] = FALSE]
                          /\ pc' = "loop"
                          /\ i' = 2
                          /\ ret' = FillCall(Pending)
                     ELSE \* lib.rs:75 panics: the vector has the one element [0]
                          /\ sieve_table' = [sieve_table EXCEPT ![0] = FALSE]
                          /\ pc' = Unwound(FillCall(Panic).op)
                          /\ i' = i
                          /\ ret' = FillCall(Panic)
               /\ UNCHANGED <<max, filled, cur_target, writes>>

\* a process_ahead that never returns early
Eliminated_Never(target) == FALSE

\* lib.rs:46: !self.sieve_table[target]
Eliminated(target) == ~sieve_table[target]

\* a pass that starts at the third multiple
FirstMultiple_Third(target) == 3 * target

\* lib.rs:49: 2 * target
FirstMultiple(target) == 2 * target

\* lib.rs:76-77 and 45-49: the loop takes its next i and calls process_ahead(i)
ProcessAheadEnter ==
    /\ pc = "loop"
    /\ i <= LoopEnd(max)
    /\ IF ~InBounds(sieve_table, i)
          THEN /\ pc' = Unwound(ret.op)
               /\ ret' = [ret EXCEPT !.res = Panic]
               /\ i' = 0
               /\ UNCHANGED cur_target
          ELSE IF Eliminated(i)
          THEN \* lib.rs:46-48: return, and the loop moves on
               /\ i' = i + 1
               /\ UNCHANGED <<pc, cur_target, ret>>
          ELSE /\ cur_target' = FirstMultiple(i)
               /\ pc' = "ahead"
               /\ i' = i
               /\ ret' = ret
    /\ UNCHANGED <<max, sieve_table, filled, writes>>

\* lib.rs:50-53: one turn of process_ahead's while loop, or its end
\* (cur_target <= max and i <= sqrt(max), and max + 1 flags are allocated, so
\* cur_target + i stays far inside usize)
ProcessAheadStep ==
    /\ pc = "ahead"
    /\ IF cur_target <= max
          THEN IF InBounds(sieve_table, cur_target)
               THEN /\ sieve_table' = [sieve_table EXCEPT ![cur_target] = FALSE]
                    /\ writes' = writes \cup
                          {[pass |-> i, index |-> cur_target, was |-> sieve_table[cur_target]]}
                    /\ cur_target' = cur_target + i
                    /\ UNCHANGED <<pc, i, ret>>
               ELSE /\ pc' = Unwound(ret.op)
                    /\ ret' = [ret EXCEPT !.res = Panic]
                    /\ i' = 0
                    /\ cur_target' = 0
                    /\ UNCHANGED <<sieve_table, writes>>
          ELSE /\ pc' = "loop"
               /\ i' = i + 1
               /\ cur_target' = 0
               /\ UNCHANGED <<sieve_table, writes, ret>>
    /\ UNCHANGED <<max, filled>>

\* lib.rs:76 and 79-80: the range is exhausted, fill sets filled and returns
FillReturn ==
    /\ pc = "loop"
    /\ i > LoopEnd(max)
    /\ filled' = TRUE
    /\ pc' = "idle"
    /\ i' = 0
    /\ ret' = [ret EXCEPT !.res = Ok(<<>>)]
    /\ UNCHANGED <<max, sieve_table, cur_target, writes>>

(***************************************************************************)
(* The read-only calls, on a sieve no call is running on.                  *)
(***************************************************************************)
Lookup ==
    /\ pc = "idle"
    /\ \E target \in LookupTargets :
          ret' = [op |-> "lookup", arg |-> target, res |-> lookup(target)]
    /\ UNCHANGED <<max, sieve_table, filled, pc, i, cur_target, writes>>

Filter ==
    /\ pc = "idle"
    /\ \E target \in FilterInputs :
          ret' = [op |-> "filter", arg |-> target, res |-> filter(target)]
    /\ UNCHANGED <<max, sieve_table, filled, pc, i, cur_target, writes>>

Next ==
    \/ FillEnter
    \/ ProcessAheadEnter
    \/ ProcessAheadStep
    \/ FillReturn
    \/ Lookup
    \/ Filter

Spec == Init /\ [][Next]_vars

(***************************************************************************)
(* Ground truth.                                                           *)
(***************************************************************************)
IsPrime(n) == n >= 2 /\ \A d \in 2..(n - 1) : n % d /= 0

IsComposite(n) == n >= 2 /\ ~IsPrime(n)

\* the smallest prime factor of n >= 2
SmallestFactor(n) == CHOOSE d \in 2..n : n % d = 0 /\ \A e \in 2..(d - 1) : n % e /= 0

\* the multiples 2p, 3p, ... of p up to m
Multiples(p, m) == {k \in (2 * p)..m : k % p = 0}

\* the indices stored to by the elimination pass of p
Written(p) == {w.index : w \in {x \in writes : x.pass = p}}

\* the values of i whose call of process_ahead has returned
PassesDone ==
    IF pc \in {"loop", "ahead"} THEN 2..(i - 1)
    ELSE IF filled THEN 2..LoopEnd(max)
    ELSE {}

AllInBounds(s) == \A k \in 1..Len(s) : s[k] <= max

FirstOutOfBounds(s) ==
    s[CHOOSE k \in 1..Len(s) : s[k] > max /\ \A j \in 1..(k - 1) : s[j] <= max]

(***************************************************************************)
(* C1: once fill has been called on the sieve (by its owner or by          *)
(* Sieve::new) and the call is over, lookup(n) is Ok(true) exactly for the *)
(* prime n and Ok(false) for every other n in 0..=max, for every max.      *)
(***************************************************************************)
C1_LookupIsPrimality ==
    (ret.op \in {"fill", "new"} /\ ret.res.tag /= "Pending") =>
        \A n \in 0..max : lookup(n) = Ok(IsPrime(n))

\* what holds of the code: the same, of the calls of fill that return
FilledLookupIsPrimality ==
    (pc = "idle" /\ filled) => \A n \in 0..max : lookup(n) = Ok(IsPrime(n))

(***************************************************************************)
(* C2: new(max) never fails, for max = 0 and 1 too: fill does not panic,   *)
(* and new returns a filled sieve of max + 1 flags, none of them set when  *)
(* max < 2.                                                                *)
(***************************************************************************)
C2_NewNeverFails ==
    /\ pc /= "panicked"
    /\ ret.res.tag /= "Panic"
    /\ (ret.op = "new" /\ pc = "idle") =>
          /\ filled
          /\ Cardinality(DOMAIN sieve_table) = max + 1
          /\ (max < 2 => \A n \in 0..max : ~sieve_table[n])

(***************************************************************************)
(* C3: lookup on a sieve that was never filled returns "Sieve not          *)
(* populated!" for every target, within 0..=max or beyond it.              *)
(***************************************************************************)
C3_UnfilledLookupRejected ==
    (ret.op = "lookup" /\ ~filled) => ret.res = Err(NotPopulatedMsg)

C3_Witness ==
    /\ ~filled
    /\ ret.op = "lookup"
    /\ ret.arg > max
    /\ ret.res = Err(NotPopulatedMsg)

(***************************************************************************)
(* C4: lookup on a filled sieve returns the out-of-bounds error, with the  *)
(* target and max in it, exactly when target > max, and otherwise the flag *)
(* at index target.                                                        *)
(***************************************************************************)
C4_FilledLookupBounds ==
    (ret.op = "lookup" /\ filled) =>
        ret.res = IF ret.arg > max THEN Err(OutOfBoundsMsg(ret.arg, max))
                                   ELSE Ok(sieve_table[ret.arg])

C4_Witness ==
    /\ filled
    /\ ret.op = "lookup"
    /\ ret.arg = max
    /\ max = 11
    /\ ret.res = Ok(TRUE)

(***************************************************************************)
(* C5: filter on a filled sieve, given elements that are all <= max,       *)
(* returns the primes among them in their order, duplicates kept.          *)
(***************************************************************************)
C5_FilterKeepsPrimes ==
    (ret.op = "filter" /\ filled /\ AllInBounds(ret.arg)) =>
        ret.res = Ok(SelectSeq(ret.arg, IsPrime))

C5_Witness ==
    /\ filled
    /\ max = 15
    /\ ret.op = "filter"
    /\ ret.arg = TestCases
    /\ ret.res = Ok(<<2, 3, 5>>)

(***************************************************************************)
(* C6: filter on a filled sieve, given some element > max, returns the     *)
(* error lookup gives for the first such element, whatever comes before or *)
(* after it.                                                               *)
(***************************************************************************)
C6_FilterFailsOnFirstOutOfBounds ==
    (ret.op = "filter" /\ filled /\ ~AllInBounds(ret.arg)) =>
        ret.res = Err(OutOfBoundsMsg(FirstOutOfBounds(ret.arg), max))

C6_Witness ==
    /\ filled
    /\ max = 3
    /\ ret.op = "filter"
    /\ ret.arg = TestCases
    /\ ret.res = Err(OutOfBoundsMsg(4, 3))

(***************************************************************************)
(* C7: filter on a sieve that was never filled returns "Sieve not          *)
(* populated!" for every vector, the empty one included.                   *)
(***************************************************************************)
C7_UnfilledFilterRejected ==
    (ret.op = "filter" /\ ~filled) => ret.res = Err(NotPopulatedMsg)

(***************************************************************************)
(* C8: filled never goes back to false, and a step taken on a filled sieve *)
(* (a further fill among them) is a no-op on the sieve: max, the table and *)
(* filled stay as they are, no store to the table is executed and the call *)
(* returns at once.                                                        *)
(***************************************************************************)
C8_FillIdempotent ==
    [][filled => /\ filled'
                 /\ max' = max
                 /\ sieve_table' = sieve_table
                 /\ writes' = writes
                 /\ pc' = "idle"]_vars

C8_Witness ==
    /\ filled
    /\ max = 16
    /\ ret.op = "fill"
    /\ ret.arg = TRUE
    /\ ret.res = Ok(<<>>)

(***************************************************************************)
(* C9, as claimed: no elimination pass stores to an index whose smallest   *)
(* prime factor is smaller than the pass's prime.                          *)
(***************************************************************************)
C9_OnlySmallestFactorPass ==
    \A w \in writes : SmallestFactor(w.index) >= w.pass

(***************************************************************************)
(* C9, amended: every store of a pass goes to a multiple of the pass's     *)
(* prime; a store that turns a flag from true to false happens in the pass *)
(* of the index's smallest prime factor, and once fill has returned every  *)
(* composite index has been turned off in that pass.  (Later passes store  *)
(* false again to indices already turned off.)                             *)
(***************************************************************************)
C9_FirstEliminationBySmallestFactor ==
    /\ \A w \in writes :
          /\ w.index % w.pass = 0
          /\ SmallestFactor(w.index) <= w.pass
          /\ w.was => w.pass = SmallestFactor(w.index)
    /\ filled =>
          \A c \in 0..max :
              IsComposite(c) =>
                  [pass |-> SmallestFactor(c), index |-> c, was |-> TRUE] \in writes

C9_Witness ==
    /\ filled
    /\ [pass |-> 3, index |-> 6, was |-> FALSE] \in writes
    /\ [pass |-> 2, index |-> 6, was |-> TRUE] \in writes
    /\ [pass |-> 3, index |-> 9, was |-> TRUE] \in writes

(***************************************************************************)
(* C10: when the loop reaches an i whose flag is still set, i is prime, so *)
(* only primes run an elimination pass; a pass stores to exactly the       *)
(* multiples 2i, 3i, ... <= max; and no step sets a flag back to true.     *)
(***************************************************************************)
C10_State ==
    /\ (pc = "loop" /\ i <= LoopEnd(max) /\ sieve_table[i]) => IsPrime(i)
    /\ \A w \in writes : IsPrime(w.pass)
    /\ \A p \in PassesDone :
          Written(p) = IF IsPrime(p) THEN Multiples(p, max) ELSE {}
    /\ pc = "ahead" =>
          Written(i) = {k \in Multiples(i, max) : k < cur_target}

C10_Step ==
    \A k \in DOMAIN sieve_table : ~sieve_table[k] => ~sieve_table'[k]

C10_PassesOfPrimes == []C10_State /\ [][C10_Step]_vars

C10_Witness ==
    /\ pc = "loop"
    /\ max = 16
    /\ i = 4
    /\ ~sieve_table[4]
    /\ Written(3) = {6, 9, 12, 15}

====
